---- MODULE Spec2Model ----
(***************************************************************************)
(* Model of db/delegate.go: the Delegate registry.  Register appends a     *)
(* handler (Func) to the list of a (domain, action) key in a two-level     *)
(* map; Call logs, looks the key up and invokes every handler of the list  *)
(* synchronously, logging the errors they return.                          *)
(*                                                                         *)
(* Spec and its variants: one goroutine drives the Delegate; SpecConc: two *)
(* goroutines call Register and Call, step by step, on maps, slices and    *)
(* arrays shared by reference.  A handler is foreign code: while it        *)
(* runs it may call Register on the same Delegate and write into the bytes *)
(* of the payload (SpecMem), and it ends by returning nil, returning an    *)
(* error, or panicking, if it ends at all.  The context passed to          *)
(* Call may be cancelled by its owner at any moment.  Handlers are non-nil *)
(* and do not call Call themselves.                                        *)
(*                                                                         *)
(* trace is the sequence of observable effects of the Call in progress (or *)
(* of the last one): the entries written to the logger and the handler     *)
(* invocations, returns and panics.  regs is the history of the Register   *)
(* calls made so far: for every key, the handlers passed to Register under *)
(* that key, in call order.  snap is the length of the history of Call's   *)
(* key when Call made its lookup.                                          *)
(***************************************************************************)
EXTENDS Integers, Sequences, FiniteSets, TLC

\* ---- bounds ----
MaxRegs == 3          \* Register calls in one behaviour
MaxConcRegs == 5      \* Register calls in one behaviour of SpecConc

\* ---- input alphabets ----
Domains  == {"user", "order"}
Actions  == {"created", "shipped"}
Fns      == {"A", "B"}
Payloads == {<< >>, <<1>>}
Bytes    == {1, 2}
Contexts == {"ctx1", "ctx2"}
PreCancelled == {"ctx2"}   \* the contexts already cancelled when passed to Call
Errors   == {"e1", "e2"}
NoErr    == "nil"

VARIABLES
    funcs,      \* d.funcs : domain -> action -> sequence of Func
    regs,       \* history of Register calls: <<domain, action>> -> <<fn, ...>>
    pc,         \* position of Call: "idle" when no Call is in progress
    ctx,        \* Call's ctx argument
    cancelled,  \* whether ctx has been cancelled
    cancelWhen, \* "never", or "before" / "during" Call: when ctx was cancelled
    data,       \* Call's data argument
    rng,        \* the slice the range loop of Call iterates over
    idx,        \* 1-based position of the range loop in rng
    err,        \* value returned by the handler just invoked
    result,     \* outcome of the last Call: "none", "nil", an error, "panic"
    trace,      \* log entries and handler events of the current/last Call
    snap,       \* Len(regs[key of data]) when Call was entered
    reent,      \* <<key, position in regs[key]>> of the registrations a handler
                \* made under the key of the Call it was running in (SpecReent)
    mem,        \* bytes of the array data.RawParams points to
    \* -- two goroutines on one Delegate (SpecConc) --
    cfuncs,     \* d.funcs : domain -> reference to an inner map (index of heap)
    heap,       \* the inner maps: action -> slice
    arrs,       \* the arrays behind the slices: [cap, el]
    th,         \* per goroutine: position in Register / Call and their locals
    crashed     \* the runtime stopped the program: concurrent map access

vars == <<funcs, regs, pc, ctx, cancelled, cancelWhen, data, rng, idx, err, result, trace, snap, reent, mem,
          cfuncs, heap, arrs, th, crashed>>

\* the variables of the sequential specifications, and those of SpecConc
svars == <<funcs, pc, ctx, cancelled, cancelWhen, data, rng, idx, err, result, trace, snap, reent, mem>>

cvars == <<cfuncs, heap, arrs, th, crashed>>

Keys == Domains \X Actions

KeyOf(dat) == <<dat.Domain, dat.Action>>

RECURSIVE SumLen(_, _)
SumLen(h, S) ==
    IF S = {} THEN 0
    ELSE LET k == CHOOSE x \in S : TRUE IN Len(h[k]) + SumLen(h, S \ {k})

\* number of Register calls made so far
NumRegs == SumLen(regs, Keys)

\* the history after one more Register call
Recorded(h, d, a, fn) == [h EXCEPT ![<<d, a>>] = Append(@, fn)]

\* ---- Go maps as functions with a finite domain ----
EmptyMap == << >>

Has(m, k) == k \in DOMAIN m

MapPutFresh(m, k, v) == [x \in {k} |-> v]

\* m[k] = v
MapPut(m, k, v) == [x \in (DOMAIN m) \cup {k} |-> IF x = k THEN v ELSE m[x]]

\* ---- Data and the records of the trace ----
Data == [Domain : Domains, Action : Actions, RawParams : Payloads]

StartEntry(dat) ==
    [ev |-> "log", level |-> "info", status |-> "started",
     domain |-> dat.Domain, action |-> dat.Action, params |-> dat.RawParams]

SendingEntry == [ev |-> "log", level |-> "info", status |-> "sending"]

CompletedEntry == [ev |-> "log", level |-> "info", status |-> "completed"]

ErrorEntry(e) == [ev |-> "log", level |-> "error", msg |-> e]

CallEvent(i, fn, c, dat) == [ev |-> "call", idx |-> i, fn |-> fn, ctx |-> c, data |-> dat]

RetEvent(i, e) == [ev |-> "ret", idx |-> i, err |-> e]

PanicEvent(i) == [ev |-> "panic", idx |-> i]

\* ---- Register ----
\* line 43: funcs = append(funcs, fn)
AppendFnPrepend(fs, fn) == <<fn>> \o fs

AppendFnReplace(fs, fn) == <<fn>>

AppendFn(fs, fn) == Append(fs, fn)

RegisterFuncsOneAction(f, d, a, fn) ==
    LET aMap == IF Has(f, d) THEN f[d] ELSE EmptyMap
        a0   == IF aMap = EmptyMap THEN a ELSE CHOOSE x \in DOMAIN aMap : TRUE
        fs   == IF Has(aMap, a0) THEN aMap[a0] ELSE << >>
    IN  MapPut(f, d, MapPut(aMap, a0, Append(fs, fn)))

\* lines 36-44: the map after Register(d, a, fn)
RegisterFuncs(f, d, a, fn) ==
    LET aMap == IF Has(f, d) THEN f[d] ELSE EmptyMap
        fs   == IF Has(aMap, a) THEN aMap[a] ELSE << >>
    IN  MapPut(f, d, MapPut(aMap, a, AppendFn(fs, fn)))

\* ---- Call ----
LookupFuncsAnyAction(f, d, a) ==
    IF ~Has(f, d) THEN << >>
    ELSE IF Has(f[d], a) THEN f[d][a]
    ELSE f[d][CHOOSE x \in DOMAIN f[d] : TRUE]

\* lines 53-54: the slice the loop ranges over; empty on a lookup miss
LookupFuncs(f, d, a) ==
    IF Has(f, d) /\ Has(f[d], a) THEN f[d][a] ELSE << >>

LookupEffectInsert(f, d, a) ==
    IF Has(f, d) THEN f ELSE MapPut(f, d, EmptyMap)

\* lines 53-54: reading a Go map, also with an absent key, leaves it as it is
LookupEffect(f, d, a) == f

RangeSliceLive(r, live) == live

\* line 55: range evaluates funcs once, the loop runs over that slice value
\* whatever the map holds by now (live)
RangeSlice(r, live) == r

HasNextUnlessCancelled(i, r, canc) == i <= Len(r) /\ ~canc

\* line 55: the range loop has another element
HasNext(i, r, canc) == i <= Len(r)

NextIdxStopOnErr(i, r, e) == IF e # NoErr THEN Len(r) + 1 ELSE i + 1

\* line 55: the range loop moves on after the body, whatever fn returned
NextIdx(i, r, e) == i + 1

\* line 58: data is copied into the call, the bytes of RawParams are shared
Passed(dat, m) == [dat EXCEPT !.RawParams = m]

AfterSendAsync == "loop"

\* line 58: fn is called on the goroutine of Call, which waits for its return
AfterSend == "running"

LogErrAlways(tr, e) == Append(tr, ErrorEntry(e))

\* lines 58-60: the log after the handler returned e
LogErr(tr, e) == IF e # NoErr THEN Append(tr, ErrorEntry(e)) ELSE tr

ReturnValueLastErr(tr) ==
    LET errs == SelectSeq(tr, LAMBDA x : x.ev = "ret" /\ x.err # NoErr)
    IN  IF errs = << >> THEN NoErr ELSE errs[Len(errs)].err

\* line 65: return nil
ReturnValue(tr) == NoErr

DeferredIfClean(tr) ==
    IF \E p \in 1..Len(tr) : tr[p].ev = "ret" /\ tr[p].err # NoErr
    THEN tr ELSE Append(tr, CompletedEntry)

\* line 51: the deferred log, run when Call returns or unwinds
Deferred(tr) == Append(tr, CompletedEntry)

PanicRecovered == "check"

\* where a panicking handler sends Call: nothing recovers, the stack unwinds
PanicTarget == "unwind"

\* ---- two goroutines: slices, arrays and the locals of a goroutine ----
Threads == {"g1", "g2"}

\* the domains and actions the goroutines of SpecConc use
ConcDomains == {"user"}
ConcActions == {"created"}

NilSlice == [arr |-> 0, len |-> 0]

IdleThread == [pc |-> "idle", d |-> "", a |-> "", fn |-> "", aMap |-> 0, fs |-> NilSlice]

\* the elements of slice sl over the arrays ar
SliceSeq(ar, sl) == IF sl.arr = 0 THEN << >> ELSE SubSeq(ar[sl.arr].el, 1, sl.len)

\* append: the capacity of the array allocated when the old one is full
GrowCap(c) == IF c = 0 THEN 1 ELSE 2 * c

\* line 43: append writes in place when the array has room ...
HasRoom(ar, sl) == sl.arr # 0 /\ sl.len < ar[sl.arr].cap

AppendArrs(ar, sl, fn) ==
    IF HasRoom(ar, sl)
    THEN [ar EXCEPT ![sl.arr].el =
             IF Len(@) > sl.len THEN [@ EXCEPT ![sl.len + 1] = fn] ELSE Append(@, fn)]
    ELSE Append(ar, [cap |-> GrowCap(IF sl.arr = 0 THEN 0 ELSE ar[sl.arr].cap),
                     el  |-> AppendFn(SliceSeq(ar, sl), fn)])

\* ... and returns a slice over that array or over the new one
AppendSlice(ar, sl, fn) ==
    IF HasRoom(ar, sl) THEN [arr |-> sl.arr, len |-> sl.len + 1]
    ELSE [arr |-> Len(ar) + 1, len |-> sl.len + 1]

MayEnterLocked(t) == \A u \in Threads \ {t} : th[u].pc = "idle"

\* lines 35 and 49: Register and Call take no lock, a goroutine enters
\* whatever the others are doing
MayEnter(t) == TRUE

\* the map a goroutine is about to access: 0 for d.funcs, the reference of
\* an inner map, -1 for none; and whether it will write it
MapAt(t) ==
    CASE th[t].pc \in {"r36", "r38", "c53"} -> 0
      [] th[t].pc \in {"r42", "r44", "c54"} -> th[t].aMap
      [] OTHER -> -1

WritesMap(t) == th[t].pc \in {"r38", "r44"}

\* two goroutines are about to access the same map, one of them writing
Conflict(t, u) ==
    /\ t # u
    /\ MapAt(t) # -1
    /\ MapAt(t) = MapAt(u)
    /\ WritesMap(t) \/ WritesMap(u)

\* Registers begun so far: the completed ones and those in progress
NumBegun ==
    SumLen(regs, Keys) + Cardinality({t \in Threads : th[t].pc \in {"r36", "r38", "r42", "r43", "r44"}})

\* the slice the loop of the Call in progress ranges over
Ranged == RangeSlice(rng, LookupFuncs(funcs, data.Domain, data.Action))

Init ==
    /\ funcs = EmptyMap
    /\ regs = [k \in Keys |-> << >>]
    /\ pc = "idle"
    /\ ctx = "ctx1"
    /\ cancelled = FALSE
    /\ cancelWhen = "never"
    /\ data = [Domain |-> "user", Action |-> "created", RawParams |-> << >>]
    /\ rng = << >>
    /\ idx = 0
    /\ err = NoErr
    /\ result = "none"
    /\ trace = << >>
    /\ snap = 0
    /\ reent = {}
    /\ mem = << >>
    /\ cfuncs = EmptyMap
    /\ heap = << >>
    /\ arrs = << >>
    /\ th = [t \in Threads |-> IdleThread]
    /\ crashed = FALSE

\* Register called by the owner of the Delegate, outside any Call
Register(d, a, fn) ==
    /\ pc = "idle"
    /\ NumRegs < MaxRegs
    /\ funcs' = RegisterFuncs(funcs, d, a, fn)
    /\ regs' = Recorded(regs, d, a, fn)
    /\ UNCHANGED <<pc, ctx, cancelled, cancelWhen, data, rng, idx, err, result, trace, snap, reent, mem>>
    /\ UNCHANGED cvars

\* lines 49-51: Call is entered, logs "started" and defers "completed"
Call(c, canc, dat) ==
    /\ pc = "idle"
    /\ pc' = "lookup"
    /\ ctx' = c
    /\ cancelled' = canc
    /\ cancelWhen' = IF canc THEN "before" ELSE "never"
    /\ data' = dat
    /\ trace' = <<StartEntry(dat)>>
    /\ result' = "none"
    /\ rng' = << >>
    /\ idx' = 0
    /\ err' = NoErr
    /\ snap' = Len(regs[KeyOf(dat)])
    /\ mem' = dat.RawParams
    /\ UNCHANGED <<funcs, regs, reent>>
    /\ UNCHANGED cvars

\* lines 53-55: the two lookups and the evaluation of the range expression
Lookup ==
    /\ pc = "lookup"
    /\ rng' = LookupFuncs(funcs, data.Domain, data.Action)
    /\ idx' = 1
    /\ pc' = "loop"
    /\ funcs' = LookupEffect(funcs, data.Domain, data.Action)
    /\ UNCHANGED <<regs, ctx, cancelled, cancelWhen, data, err, result, trace, snap, reent, mem>>
    /\ UNCHANGED cvars

\* lines 55-58: next element, log "sending", call fn(ctx, data)
Send ==
    /\ pc = "loop"
    /\ HasNext(idx, Ranged, cancelled)
    /\ trace' = trace \o <<SendingEntry, CallEvent(idx, Ranged[idx], ctx, Passed(data, mem))>>
    /\ pc' = AfterSend
    /\ UNCHANGED <<funcs, regs, ctx, cancelled, cancelWhen, data, rng, idx, err, result, snap, reent, mem>>
    /\ UNCHANGED cvars

\* the running handler calls d.Register
HandlerRegister(d, a, fn) ==
    /\ pc = "running"
    /\ NumRegs < MaxRegs
    /\ funcs' = RegisterFuncs(funcs, d, a, fn)
    /\ regs' = Recorded(regs, d, a, fn)
    /\ UNCHANGED <<pc, ctx, cancelled, cancelWhen, data, rng, idx, err, result, trace, snap, reent, mem>>
    /\ UNCHANGED cvars

\* the same, with the registration noted in reent when it is under Call's key
HandlerRegisterNoted(d, a, fn) ==
    /\ pc = "running"
    /\ NumRegs < MaxRegs
    /\ funcs' = RegisterFuncs(funcs, d, a, fn)
    /\ regs' = Recorded(regs, d, a, fn)
    /\ reent' = IF <<d, a>> = KeyOf(data)
                THEN reent \cup {<<KeyOf(data), Len(regs[KeyOf(data)]) + 1>>}
                ELSE reent
    /\ UNCHANGED <<pc, ctx, cancelled, cancelWhen, data, rng, idx, err, result, trace, snap, mem>>
    /\ UNCHANGED cvars

\* the running handler writes b into the first byte of data.RawParams
HandlerWrite(b) ==
    /\ pc = "running"
    /\ Len(mem) >= 1
    /\ mem[1] # b
    /\ mem' = [mem EXCEPT ![1] = b]
    /\ UNCHANGED <<funcs, regs, pc, ctx, cancelled, cancelWhen, data, rng, idx, err, result, trace, snap, reent>>
    /\ UNCHANGED cvars

\* the running handler returns e (nil or an error)
HandlerReturn(e) ==
    /\ pc = "running"
    /\ err' = e
    /\ trace' = Append(trace, RetEvent(idx, e))
    /\ pc' = "check"
    /\ UNCHANGED <<funcs, regs, ctx, cancelled, cancelWhen, data, rng, idx, result, snap, reent, mem>>
    /\ UNCHANGED cvars

\* the running handler panics
HandlerPanic ==
    /\ pc = "running"
    /\ trace' = Append(trace, PanicEvent(idx))
    /\ pc' = PanicTarget
    /\ UNCHANGED <<funcs, regs, ctx, cancelled, cancelWhen, data, rng, idx, err, result, snap, reent, mem>>
    /\ UNCHANGED cvars

\* lines 58-60: if err != nil, log it; then on to the next element
Check ==
    /\ pc = "check"
    /\ trace' = LogErr(trace, err)
    /\ idx' = NextIdx(idx, rng, err)
    /\ err' = NoErr
    /\ pc' = "loop"
    /\ UNCHANGED <<funcs, regs, ctx, cancelled, cancelWhen, data, rng, result, snap, reent, mem>>
    /\ UNCHANGED cvars

\* line 65, then the deferred log of line 51
Return ==
    /\ pc = "loop"
    /\ ~HasNext(idx, Ranged, cancelled)
    /\ result' = ReturnValue(trace)
    /\ trace' = Deferred(trace)
    /\ pc' = "idle"
    /\ rng' = << >>
    /\ idx' = 0
    /\ UNCHANGED <<funcs, regs, ctx, cancelled, cancelWhen, data, err, snap, reent, mem>>
    /\ UNCHANGED cvars

\* the panic unwinds Call: the deferred log of line 51 runs, the panic goes on
Unwind ==
    /\ pc = "unwind"
    /\ result' = "panic"
    /\ trace' = Deferred(trace)
    /\ pc' = "idle"
    /\ rng' = << >>
    /\ idx' = 0
    /\ UNCHANGED <<funcs, regs, ctx, cancelled, cancelWhen, data, err, snap, reent, mem>>
    /\ UNCHANGED cvars

\* the owner of ctx cancels it while Call is in progress
Cancel ==
    /\ pc # "idle"
    /\ ~cancelled
    /\ cancelled' = TRUE
    /\ cancelWhen' = "during"
    /\ UNCHANGED <<funcs, regs, pc, ctx, data, rng, idx, err, result, trace, snap, reent, mem>>
    /\ UNCHANGED cvars

Next ==
    \/ \E d \in Domains, a \in Actions, fn \in Fns : Register(d, a, fn)
    \/ \E c \in Contexts, dat \in Data : Call(c, c \in PreCancelled, dat)
    \/ Lookup
    \/ Send
    \/ \E d \in Domains, a \in Actions, fn \in Fns : HandlerRegister(d, a, fn)
    \/ \E e \in Errors \cup {NoErr} : HandlerReturn(e)
    \/ HandlerPanic
    \/ Check
    \/ Return
    \/ Unwind
    \/ Cancel

Spec == Init /\ [][Next]_vars

\* Spec with handlers that also write into the bytes of the payload
NextMem ==
    \/ Next
    \/ \E b \in Bytes : HandlerWrite(b)

SpecMem == Init /\ [][NextMem]_vars

\* Spec with the registrations of handlers noted in reent; one context, never
\* cancelled, and the empty payload
NextReent ==
    \/ \E d \in Domains, a \in Actions, fn \in Fns : Register(d, a, fn)
    \/ \E d \in Domains, a \in Actions :
          Call("ctx1", FALSE, [Domain |-> d, Action |-> a, RawParams |-> << >>])
    \/ Lookup
    \/ Send
    \/ \E d \in Domains, a \in Actions, fn \in Fns : HandlerRegisterNoted(d, a, fn)
    \/ \E e \in Errors \cup {NoErr} : HandlerReturn(e)
    \/ HandlerPanic
    \/ Check
    \/ Return
    \/ Unwind

SpecReent == Init /\ [][NextReent]_vars

\* Spec with one context, never cancelled, and the empty payload, and with
\* the steps of Call itself always taken in the end: its goroutine keeps
\* being scheduled.  Nothing obliges a handler to return.
NextLive ==
    \/ \E d \in Domains, a \in Actions, fn \in Fns : Register(d, a, fn)
    \/ \E d \in Domains, a \in Actions :
          Call("ctx1", FALSE, [Domain |-> d, Action |-> a, RawParams |-> << >>])
    \/ Lookup
    \/ Send
    \/ \E d \in Domains, a \in Actions, fn \in Fns : HandlerRegister(d, a, fn)
    \/ \E e \in Errors \cup {NoErr} : HandlerReturn(e)
    \/ HandlerPanic
    \/ Check
    \/ Return
    \/ Unwind

SpecLive ==
    /\ Init
    /\ [][NextLive]_vars
    /\ WF_vars(Lookup)
    /\ WF_vars(Send)
    /\ WF_vars(Check)
    /\ WF_vars(Return)
    /\ WF_vars(Unwind)

\* ---- two goroutines calling Register and Call on one Delegate ----
\* line 35: goroutine t calls Register(d, a, fn)
BeginRegister(t, d, a, fn) ==
    /\ ~crashed
    /\ th[t].pc = "idle"
    /\ MayEnter(t)
    /\ NumBegun < MaxConcRegs
    /\ th' = [th EXCEPT ![t] = [IdleThread EXCEPT !.pc = "r36", !.d = d, !.a = a, !.fn = fn]]
    /\ UNCHANGED <<cfuncs, heap, arrs, crashed, regs>>
    /\ UNCHANGED svars

\* lines 36-37: aMap, ok := d.funcs[domain]
RegReadDomain(t) ==
    /\ ~crashed
    /\ th[t].pc = "r36"
    /\ th' = IF Has(cfuncs, th[t].d)
             THEN [th EXCEPT ![t].aMap = cfuncs[th[t].d], ![t].pc = "r42"]
             ELSE [th EXCEPT ![t].pc = "r38"]
    /\ UNCHANGED <<cfuncs, heap, arrs, crashed, regs>>
    /\ UNCHANGED svars

\* lines 38-39: aMap = make(...); d.funcs[domain] = aMap
RegNewDomain(t) ==
    /\ ~crashed
    /\ th[t].pc = "r38"
    /\ heap' = Append(heap, EmptyMap)
    /\ cfuncs' = MapPut(cfuncs, th[t].d, Len(heap) + 1)
    /\ th' = [th EXCEPT ![t].aMap = Len(heap) + 1, ![t].pc = "r42"]
    /\ UNCHANGED <<arrs, crashed, regs>>
    /\ UNCHANGED svars

\* line 42: funcs := aMap[action]
RegReadList(t) ==
    /\ ~crashed
    /\ th[t].pc = "r42"
    /\ th' = [th EXCEPT ![t].fs = IF Has(heap[th[t].aMap], th[t].a)
                                  THEN heap[th[t].aMap][th[t].a] ELSE NilSlice,
                        ![t].pc = "r43"]
    /\ UNCHANGED <<cfuncs, heap, arrs, crashed, regs>>
    /\ UNCHANGED svars

\* line 43: funcs = append(funcs, fn)
RegAppend(t) ==
    /\ ~crashed
    /\ th[t].pc = "r43"
    /\ arrs' = AppendArrs(arrs, th[t].fs, th[t].fn)
    /\ th' = [th EXCEPT ![t].fs = AppendSlice(arrs, th[t].fs, th[t].fn), ![t].pc = "r44"]
    /\ UNCHANGED <<cfuncs, heap, crashed, regs>>
    /\ UNCHANGED svars

\* line 44: aMap[action] = funcs, and Register returns
RegWriteList(t) ==
    /\ ~crashed
    /\ th[t].pc = "r44"
    /\ heap' = [heap EXCEPT ![th[t].aMap] = MapPut(@, th[t].a, th[t].fs)]
    /\ regs' = Recorded(regs, th[t].d, th[t].a, th[t].fn)
    /\ th' = [th EXCEPT ![t] = IdleThread]
    /\ UNCHANGED <<cfuncs, arrs, crashed>>
    /\ UNCHANGED svars

\* line 49: goroutine t calls Call with an event of key (d, a)
BeginCall(t, d, a) ==
    /\ ~crashed
    /\ th[t].pc = "idle"
    /\ MayEnter(t)
    /\ th' = [th EXCEPT ![t] = [IdleThread EXCEPT !.pc = "c53", !.d = d, !.a = a]]
    /\ UNCHANGED <<cfuncs, heap, arrs, crashed, regs>>
    /\ UNCHANGED svars

\* line 53: dMap, ok := d.funcs[domain]; on a miss Call returns
CallReadDomain(t) ==
    /\ ~crashed
    /\ th[t].pc = "c53"
    /\ th' = IF Has(cfuncs, th[t].d)
             THEN [th EXCEPT ![t].aMap = cfuncs[th[t].d], ![t].pc = "c54"]
             ELSE [th EXCEPT ![t] = IdleThread]
    /\ UNCHANGED <<cfuncs, heap, arrs, crashed, regs>>
    /\ UNCHANGED svars

\* line 54: funcs, ok := dMap[action]; the fan-out over funcs is that of Spec
CallReadList(t) ==
    /\ ~crashed
    /\ th[t].pc = "c54"
    /\ th' = [th EXCEPT ![t] = IdleThread]
    /\ UNCHANGED <<cfuncs, heap, arrs, crashed, regs>>
    /\ UNCHANGED svars

\* two goroutines access one map at the same time, one of them writing: the
\* runtime may detect it and stop the program
Fatal ==
    /\ ~crashed
    /\ \E t, u \in Threads : Conflict(t, u)
    /\ crashed' = TRUE
    /\ UNCHANGED <<cfuncs, heap, arrs, th, regs>>
    /\ UNCHANGED svars

NextConc ==
    \/ \E t \in Threads, d \in ConcDomains, a \in ConcActions, fn \in Fns : BeginRegister(t, d, a, fn)
    \/ \E t \in Threads : RegReadDomain(t)
    \/ \E t \in Threads : RegNewDomain(t)
    \/ \E t \in Threads : RegReadList(t)
    \/ \E t \in Threads : RegAppend(t)
    \/ \E t \in Threads : RegWriteList(t)
    \/ \E t \in Threads, d \in ConcDomains, a \in ConcActions : BeginCall(t, d, a)
    \/ \E t \in Threads : CallReadDomain(t)
    \/ \E t \in Threads : CallReadList(t)
    \/ Fatal

SpecConc == Init /\ [][NextConc]_vars

TypeOK ==
    /\ pc \in {"idle", "lookup", "loop", "running", "check", "unwind"}
    /\ ctx \in Contexts
    /\ cancelled \in BOOLEAN
    /\ cancelWhen \in {"never", "before", "during"}
    /\ data \in Data
    /\ idx \in 0..(MaxRegs + 1)
    /\ err \in Errors \cup {NoErr}
    /\ result \in {"none", "panic", NoErr} \cup Errors
    /\ snap \in 0..Len(regs[KeyOf(data)])
    /\ reent \subseteq Keys \X (1..MaxRegs)
    /\ mem \in {<< >>} \cup {<<b>> : b \in Bytes}
    /\ DOMAIN funcs \subseteq Domains
    /\ \A d \in DOMAIN funcs : DOMAIN funcs[d] \subseteq Actions

\* ---- observations on the trace ----
IsCall(e) == e.ev = "call"

IsErrorEntry(e) == e.ev = "log" /\ e.level = "error"

IsStarted(e) == e.ev = "log" /\ e.level = "info" /\ e.status = "started"

IsCompleted(e) == e.ev = "log" /\ e.level = "info" /\ e.status = "completed"

CallPositions == {p \in 1..Len(trace) : IsCall(trace[p])}

ErrorPositions == {p \in 1..Len(trace) : IsErrorEntry(trace[p])}

StartedPositions == {p \in 1..Len(trace) : IsStarted(trace[p])}

CompletedPositions == {p \in 1..Len(trace) : IsCompleted(trace[p])}

\* the handlers invoked by the current/last Call, in invocation order
InvokedFns ==
    LET calls == SelectSeq(trace, IsCall)
    IN  [i \in 1..Len(calls) |-> calls[i].fn]

\* the handlers registered under Call's key, in registration order
KeyRegs == regs[KeyOf(data)]

\* those of them registered before Call was entered
KeyRegsAtCall == SubSeq(KeyRegs, 1, snap)

\* the last Call is over; it returned, or a panic went through it
Finished == pc = "idle" /\ result # "none"

Returned == Finished /\ result # "panic"

\* C1: the k-th handler a Call invokes is the k-th handler registered under
\* the Call's key, so handlers are invoked in the order of their registration
C1_RegistrationOrder ==
    /\ Len(InvokedFns) <= Len(KeyRegs)
    /\ \A k \in 1..Len(InvokedFns) : InvokedFns[k] = KeyRegs[k]

C1_Witness ==
    /\ Returned
    /\ Len(InvokedFns) >= 2
    /\ InvokedFns[1] # InvokedFns[2]

\* C2: in a finished Call, a handler that returned an error and is not the
\* last of its key is followed by the invocation of the next handler; when no
\* handler panicked, all the handlers of the key were invoked
C2_ErrorDoesNotStopFanOut ==
    Finished =>
        /\ \A p \in 1..Len(trace) :
              (trace[p].ev = "ret" /\ trace[p].err # NoErr /\ trace[p].idx < snap)
                  => \E q \in (p + 1)..Len(trace) :
                        IsCall(trace[q]) /\ trace[q].idx = trace[p].idx + 1
        /\ Returned => Len(InvokedFns) = snap

C2_Witness ==
    /\ Returned
    /\ snap >= 2
    /\ \E p \in 1..Len(trace) :
          trace[p].ev = "ret" /\ trace[p].err # NoErr /\ trace[p].idx = 1

\* C3: a Call that returns, returns nil
C3_ReturnsNil ==
    (pc = "idle" /\ result \notin {"none", "panic"}) => result = NoErr

C3_Witness ==
    /\ Returned
    /\ ErrorPositions # {}
    /\ \A p \in 1..Len(trace) : trace[p].ev = "ret" => trace[p].err # NoErr

\* C4: a Call whose key has no registration invokes no handler, returns nil
\* and logs exactly the start entry and the completion entry
C4_MissIsNoOp ==
    snap = 0 =>
        /\ CallPositions = {}
        /\ Finished => (result = NoErr /\ trace = <<StartEntry(data), CompletedEntry>>)

C4_Witness ==
    /\ Finished
    /\ snap = 0
    /\ Has(funcs, data.Domain)
    /\ ~Has(funcs[data.Domain], data.Action)

\* C5: every handler a Call invokes was registered under the Call's key
C5_NoInterference ==
    \A p \in CallPositions :
        \E i \in 1..Len(KeyRegs) : KeyRegs[i] = trace[p].fn

C5_Witness ==
    /\ Returned
    /\ Len(InvokedFns) >= 1
    /\ \E k \in Keys :
          /\ k # KeyOf(data)
          /\ k[1] = data.Domain
          /\ \E i \in 1..Len(regs[k]) :
                \A j \in 1..Len(KeyRegs) : KeyRegs[j] # regs[k][i]

C7_ErrorLogged ==
    /\ \A p \in 1..Len(trace) :
          (trace[p].ev = "ret" /\ trace[p].err # NoErr) =>
              IF p = Len(trace) THEN pc = "check"
              ELSE trace[p + 1] = ErrorEntry(trace[p].err)
    /\ \A p \in 1..Len(trace) :
          (trace[p].ev = "ret" /\ trace[p].err = NoErr /\ p < Len(trace)) =>
              ~IsErrorEntry(trace[p + 1])
    /\ \A q \in ErrorPositions :
          /\ q > 1
          /\ trace[q - 1].ev = "ret"
          /\ trace[q - 1].err = trace[q].msg
          /\ trace[q].msg # NoErr
    /\ pc # "check" =>
          Cardinality(ErrorPositions) =
              Cardinality({p \in 1..Len(trace) :
                              trace[p].ev = "ret" /\ trace[p].err # NoErr})

C7_Witness ==
    /\ Returned
    /\ \E p \in 1..Len(trace) : trace[p].ev = "ret" /\ trace[p].err = NoErr
    /\ \E p, q \in ErrorPositions : trace[p].msg # trace[q].msg

\* C8: the trace of a Call starts with its one start entry; it has no
\* completion entry while the Call is in progress and exactly one, as its
\* last element, once the Call is over
C8_StartAndCompletion ==
    /\ trace # << >> =>
          /\ trace[1] = StartEntry(data)
          /\ StartedPositions = {1}
    /\ pc # "idle" => (trace # << >> /\ CompletedPositions = {})
    /\ Finished => CompletedPositions = {Len(trace)}

C8_Witness ==
    /\ Returned
    /\ ErrorPositions # {}
    /\ \E p \in 1..Len(trace) : trace[p].ev = "ret" /\ trace[p].err = NoErr

C10_PanicPropagates ==
    /\ \A p \in 1..Len(trace) :
          trace[p].ev = "panic" =>
              /\ \A q \in (p + 1)..Len(trace) : ~IsCall(trace[q])
              /\ pc \in {"unwind", "idle"}
              /\ pc = "idle" =>
                    /\ result = "panic"
                    /\ p = Len(trace) - 1
                    /\ trace[Len(trace)] = CompletedEntry
    /\ result = "panic" => \E p \in 1..Len(trace) : trace[p].ev = "panic"

C10_Witness ==
    /\ Finished
    /\ result = "panic"
    /\ \E p \in 1..Len(trace) : trace[p].ev = "panic" /\ trace[p].idx < snap

\* ---- the registry as a function of the key ----
Present(f, k) == Has(f, k[1]) /\ Has(f[k[1]], k[2])

ListOf(f, k) == IF Present(f, k) THEN f[k[1]][k[2]] ELSE << >>

IsPrefix(s, t) == Len(s) <= Len(t) /\ SubSeq(t, 1, Len(s)) = s

\* C12: in every step the handler list of every key stays a prefix of what
\* it becomes, and no key entry disappears: lists only grow at their end
C12_AdditiveOnly ==
    [][funcs' # funcs =>
          \A k \in Keys :
              /\ IsPrefix(ListOf(funcs, k), ListOf(funcs', k))
              /\ Present(funcs, k) => Present(funcs', k)]_vars

C12_Witness ==
    /\ Finished
    /\ \E k \in Keys : Len(ListOf(funcs, k)) >= 2 /\ Len(ListOf(funcs, k)) > snap
    /\ \E k \in Keys : k # KeyOf(data) /\ Present(funcs, k)

\* C13: a step in which Register was called for key k with handler fn
\* appends fn to the list of k and leaves every other key as it was,
\* neither creating it nor changing its list
C13_RegisterFrame ==
    [][regs' # regs =>
          \E k \in Keys, fn \in Fns :
              /\ regs' = [regs EXCEPT ![k] = Append(@, fn)]
              /\ Present(funcs', k)
              /\ ListOf(funcs', k) = Append(ListOf(funcs, k), fn)
              /\ \A k2 \in Keys \ {k} :
                    /\ Present(funcs', k2) = Present(funcs, k2)
                    /\ ListOf(funcs', k2) = ListOf(funcs, k2)]_vars

C13_Witness ==
    \E k \in Keys :
        /\ Len(ListOf(funcs, k)) = 1
        /\ \E k2 \in Keys : k2[1] = k[1] /\ k2[2] # k[2] /\ Present(funcs, k2)
        /\ \E k3 \in Keys : k3[1] # k[1] /\ k3[2] = k[2] /\ Present(funcs, k3)

\* C14: a step in which Register is not called leaves the whole mapping
\* unchanged, so no step of Call itself creates, removes or changes an entry
C14_CallLeavesRegistry ==
    [][regs' = regs => funcs' = funcs]_vars

C14_Witness ==
    /\ Returned
    /\ snap = 0
    /\ regs[KeyOf(data)] = << >>
    /\ \E d \in Domains : ~Has(funcs, d)
    /\ \/ ~Has(funcs, data.Domain)
       \/ ~Has(funcs[data.Domain], data.Action)
    /\ NumRegs >= 1

\* the invocation, return and panic events of the trace
HandlerEvents == SelectSeq(trace, LAMBDA e : e.ev \in {"call", "ret", "panic"})

\* C15: the handler events of a Call alternate: invocation of handler 1, its
\* end, invocation of handler 2, its end, ...; an invocation is open exactly
\* while Call waits in the call of line 58, and none is once Call is over
C15_Sequential ==
    LET ev == HandlerEvents
    IN  /\ \A j \in 1..Len(ev) :
              IF j % 2 = 1
              THEN ev[j].ev = "call" /\ ev[j].idx = (j + 1) \div 2
              ELSE ev[j].ev \in {"ret", "panic"} /\ ev[j].idx = ev[j - 1].idx
        /\ (Len(ev) % 2 = 1) <=> (pc = "running")
        /\ pc = "idle" => Len(ev) % 2 = 0

C15_Witness ==
    /\ Returned
    /\ Len(HandlerEvents) >= 6

\* C17 as stated: every handler is invoked with an event equal to the one
\* the caller passed to Call
C17_EventUnchanged ==
    \A p \in CallPositions : trace[p].data = data

OpenInvocation == Len(HandlerEvents) % 2 = 1

\* Call waits in the call of line 58: it has not returned, has not logged
\* its completion, and has invoked no handler after the open one
Waiting ==
    /\ pc = "running"
    /\ result = "none"
    /\ CompletedPositions = {}
    /\ \A p \in CallPositions : trace[p].idx <= idx
    /\ HandlerEvents[Len(HandlerEvents)] = CallEvent(idx, rng[idx], ctx, Passed(data, mem))

\* every invoked handler returns
HandlersReturn ==
    /\ [](pc = "running" => <>(pc # "running"))
    /\ [](pc # "unwind")

\* C16: when every invoked handler returns, every Call returns; while an
\* invocation is open Call waits, so as long as the handler does not return
\* Call does not return, invokes no later handler and logs no completion; and
\* Call leaves the wait only by the return or the panic of that handler
C16_TerminatesWithHandlers ==
    /\ HandlersReturn => ((pc # "idle") ~> Returned)
    /\ [][/\ OpenInvocation => Waiting
          /\ OpenInvocation' => Waiting'
          /\ (pc = "running" /\ pc' # "running") =>
                /\ trace'[Len(trace')].ev \in {"ret", "panic"}
                /\ trace'[Len(trace')].idx = idx
                /\ Len(trace') = Len(trace) + 1]_vars

C16_Witness ==
    /\ pc = "running"
    /\ idx = 1
    /\ Len(rng) >= 2
    /\ OpenInvocation

\* the handler list of key k in the maps of SpecConc
LiveList(k) ==
    IF Has(cfuncs, k[1]) /\ Has(heap[cfuncs[k[1]]], k[2])
    THEN SliceSeq(arrs, heap[cfuncs[k[1]]][k[2]])
    ELSE << >>

Elems(q) == {q[i] : i \in 1..Len(q)}

\* the step goroutine t is about to take
ThreadStep(t) ==
    \/ RegReadDomain(t)
    \/ RegNewDomain(t)
    \/ RegReadList(t)
    \/ RegAppend(t)
    \/ RegWriteList(t)
    \/ CallReadDomain(t)
    \/ CallReadList(t)

\* C11: while a goroutine is inside Register between reading a list and
\* writing it back, nothing holds the other goroutine: it can enter Call,
\* enter Register, or take the next step of the call it is in; and when all
\* calls are over a list holds only handlers registered under its key, and
\* not more than were registered
C11_Unsynchronized ==
    /\ \A t, u \in Threads :
          (t # u /\ ~crashed /\ th[t].pc \in {"r43", "r44"}) =>
              IF th[u].pc = "idle"
              THEN /\ \A d \in ConcDomains, a \in ConcActions : ENABLED BeginCall(u, d, a)
                   /\ NumBegun < MaxConcRegs =>
                         \A d \in ConcDomains, a \in ConcActions, fn \in Fns :
                             ENABLED BeginRegister(u, d, a, fn)
              ELSE ENABLED ThreadStep(u)
    /\ (~crashed /\ \A t \in Threads : th[t].pc = "idle") =>
          \A k \in Keys :
              /\ Elems(LiveList(k)) \subseteq Elems(regs[k])
              /\ Len(LiveList(k)) <= Len(regs[k])

\* two overlapping Register calls of one key have returned and the list
\* lacks one of their handlers; a third Register call is between its read and
\* its write-back while the other goroutine is in the lookup of Call
C11_Witness ==
    /\ ~crashed
    /\ \E t, u \in Threads :
          /\ th[t].pc = "r44"
          /\ th[u].pc = "c54"
          /\ th[t].aMap = th[u].aMap
    /\ \E k \in Keys :
          /\ Len(regs[k]) = 2
          /\ regs[k][1] # regs[k][2]
          /\ Len(LiveList(k)) = 1
====
